---------------------------- MODULE Spec2Model ----------------------------
(***************************************************************************)
(* A model of the trading core of crypto-trading-gui:                      *)
(*   - Strategy.parse_trades: aggregation of trade ticks into candles      *)
(*   - TechnicalStrategy / BreakoutStrategy.check_trade, _open_position    *)
(*     and the timer-driven _check_order_status                            *)
(*   - BinanceFuturesClient._start_ws: the websocket reconnect loop        *)
(*   - BinanceFuturesClient._make_request, get_balances, get_trade_size,   *)
(*     place_order: the REST operations                                    *)
(*   - the price cache written by get_bid_ask (from Root._update_ui) and   *)
(*     by the bookTicker branch of _on_message                             *)
(*                                                                         *)
(* Prices, sizes and timestamps are integers (the code uses floats and     *)
(* millisecond epochs).  An optional value (Python None) is the empty      *)
(* sequence, a present value v is <<v>>.                                   *)
(***************************************************************************)
EXTENDS Integers, Sequences, FiniteSets, TLC

VARIABLES
    tf,               \* Strategy.tf: the timeframe tag of the strategy
    kind,             \* which subclass the strategy is: "Technical" | "Breakout"
    min_volume,       \* BreakoutStrategy._min_volume
    candles,          \* Strategy.candles: sequence of candle records
    tick_type,        \* the value parse_trades returned last ("none" before any tick)
    last_tick,        \* the aggTrade message handled last: price, size, timestamp
    nticks,           \* number of aggTrade ticks handled so far (logical clock)
    ongoing_position, \* Strategy.ongoing_position
    trades,           \* Strategy.trades: sequence of Trade records
    orders,           \* every place_order call made so far: the request, whether it
                      \* succeeded, and the fill price if it was filled at once
    signal_calls,     \* number of _check_signal evaluations so far
    last_signal,      \* what the last _check_signal evaluation returned
    sm_pc,            \* position of the streaming thread inside _open_position
    new_trade,        \* _open_position's local Trade between Timer.start and append
    timers,           \* order id -> number of started Timers that have not run yet
    tracker_writes,   \* order id -> the prices _check_order_status wrote to entry_price
    ws_pc,            \* position of the _start_ws thread
    ws_id,            \* BinanceFuturesClient._ws_id
    ws_sent,          \* every subscription request handed to ws.send: id, channel, params, ok
    prices,           \* BinanceFuturesClient.prices: symbol -> dict of 'bid', 'ask'
    ui_call,          \* the get_bid_ask call in progress on the UI thread
    msg_call,         \* the bookTicker message _on_message is handling
    rest_call         \* the REST operation called last: arguments, request, result

vars == << tf, kind, min_volume, candles, tick_type, last_tick, nticks,
           ongoing_position,
           trades, orders, signal_calls, sm_pc, new_trade, timers,
           last_signal, tracker_writes, ws_pc, ws_id, ws_sent,
           prices, ui_call, msg_call, rest_call >>

strategyVars == << kind, min_volume, ongoing_position, trades, orders,
                   signal_calls, last_signal, sm_pc, new_trade, timers,
                   tracker_writes >>

wsVars == << ws_pc, ws_id, ws_sent >>

candleVars == << tf, candles, tick_type, last_tick, nticks >>

connVars == << prices, ui_call, msg_call, rest_call >>

(***************************************************************************)
(* Bounds of the model.                                                    *)
(***************************************************************************)
\* ticks handled in one behaviour
MaxTicks == 3
\* websocket connections opened in one behaviour
MaxOpens == 3

None == << >>
Some(v) == << v >>

Max(a, b) == IF a >= b THEN a ELSE b
Min(a, b) == IF a <= b THEN a ELSE b
Last(s) == s[Len(s)]

(***************************************************************************)
(* strategies.py: timeframes and candles                                   *)
(***************************************************************************)
\* TF_EQUIV: seconds per timeframe, as written in the source.
TF_EQUIV ==
    [t \in {"1m", "5m", "15m", "30m", "1h", "4h"} |->
        CASE t = "1m"  -> 50
          [] t = "5m"  -> 300
          [] t = "15m" -> 900
          [] t = "30m" -> 1800
          [] t = "1h"  -> 3600
          [] t = "4h"  -> 14400]

\* Strategy.__init__: self.tf_equiv = TF_EQUIV[timeframe] * 1000
tf_equiv(timeframe) == TF_EQUIV[timeframe] * 1000

Candle(ts, o, h, l, c, v) ==
    [timestamp |-> ts, open |-> o, high |-> h, low |-> l, close |-> c, volume |-> v]

\* _on_message, aggTrade: float(data['p']), float(data['q']), data['T']
Tick(price, size, timestamp) ==
    [price |-> price, size |-> size, timestamp |-> timestamp]

\* parse_trades case 1: the in-place update of the last candle
SameCandleUpdate_NoLow(c, price, size) ==
    LET c1 == [c EXCEPT !.close = price, !.volume = c.volume + size]
    IN  IF price > c1.high THEN [c1 EXCEPT !.high = price] ELSE c1

SameCandleUpdate(c, price, size) ==
    LET c1 == [c EXCEPT !.close = price, !.volume = c.volume + size]
    IN  IF price > c1.high THEN [c1 EXCEPT !.high = price]
        ELSE IF price < c1.low THEN [c1 EXCEPT !.low = price]
        ELSE c1

\* parse_trades case 3: a candle built from last_candle.close with volume 0
FlatCandle(last_candle, D) ==
    Candle(last_candle.timestamp + D, last_candle.close, last_candle.close,
           last_candle.close, last_candle.close, 0)

\* parse_trades case 3: the loop `for missing in range(missing_candles)`
RECURSIVE FillMissing(_, _, _)
FillMissing(cs, D, n) ==
    IF n <= 0 THEN cs
    ELSE FillMissing(Append(cs, FlatCandle(Last(cs), D)), D, n - 1)

\* parse_trades case 3: missing_candles = int((timestamp - t0) / tf_equiv) - 1;
\* the operands are positive here, so int() of the quotient is its floor.
MissingCandles_OneMore(last_candle, D, timestamp) ==
    (timestamp - last_candle.timestamp) \div D

MissingCandles(last_candle, D, timestamp) ==
    ((timestamp - last_candle.timestamp) \div D) - 1

\* parse_trades case 3: the loop, then one more candle built the same way
GapCandles_ResetsLast(cs, D, timestamp) ==
    LET closed == [cs EXCEPT ![Len(cs)].volume = 0]
        filled == FillMissing(closed, D, MissingCandles(Last(cs), D, timestamp))
    IN  Append(filled, FlatCandle(Last(filled), D))

GapCandles(cs, D, timestamp) ==
    LET filled == FillMissing(cs, D, MissingCandles(Last(cs), D, timestamp))
    IN  Append(filled, FlatCandle(Last(filled), D))

\* parse_trades case 2: the candle opened by the tick
TickCandle_SameTs(last_candle, D, price, size) ==
    Candle(last_candle.timestamp, price, price, price, price, size)

TickCandle_NoVolume(last_candle, D, price, size) ==
    Candle(last_candle.timestamp + D, price, price, price, price, 0)

TickCandle(last_candle, D, price, size) ==
    Candle(last_candle.timestamp + D, price, price, price, price, size)

\* Strategy.parse_trades: the new candle list and the returned tick type
ParseTrades(cs, D, price, size, timestamp) ==
    LET last_candle == Last(cs)
    IN  IF timestamp < last_candle.timestamp + D
        THEN [candles |-> [cs EXCEPT ![Len(cs)] =
                               SameCandleUpdate(last_candle, price, size)],
              res |-> "some_candle"]
        ELSE IF timestamp >= last_candle.timestamp + 2 * D
        THEN [candles |-> GapCandles(cs, D, timestamp), res |-> "new_candle"]
        ELSE [candles |-> Append(cs, TickCandle(last_candle, D, price, size)),
              res |-> "new_candle"]

(***************************************************************************)
(* Inputs of the candle specification: a seed list and ticks at and around *)
(* the interval boundaries of the "1m" timeframe (t0 + D = 51000 and       *)
(* t0 + 2D = 101000 for the seed), among them the ticks of the reference   *)
(* trace.  A tick at 1000 is older than every candle appended later.       *)
(***************************************************************************)
Timeframes == {"1m"}
SeedCandles ==
    { << Candle(1000, 100, 100, 100, 100, 0) >>,
      << Candle(1000, 103, 105, 100, 103, 2) >>,
      << Candle(0, 100, 100, 100, 100, 1), Candle(1000, 100, 100, 100, 100, 0) >> }
TickPrices == {100, 103, 105, 110}
TickSizes == {1, 2}
TickTimes == {1000, 50999, 51000, 65000, 100999, 101000, 250000}

InitStrategy ==
    /\ kind \in {"Technical", "Breakout"}
    /\ min_volume \in IF kind = "Breakout" THEN {0, 1} ELSE {0}
    /\ ongoing_position = FALSE
    /\ trades = << >>
    /\ orders = << >>
    /\ signal_calls = 0
    /\ last_signal = None
    /\ sm_pc = "idle"
    /\ new_trade = None
    /\ timers = << >>
    /\ tracker_writes = << >>

\* BinanceFuturesClient.__init__: self.prices = dict(); no call is in progress
Symbols == {"BTCUSDT", "ETHUSDT"}
InitConn ==
    /\ prices = [s \in Symbols |-> None]
    /\ ui_call = None
    /\ msg_call = None
    /\ rest_call = None

InitWs ==
    /\ ws_pc = "disconnected"
    /\ ws_id = 1
    /\ ws_sent = << >>

InitCandles ==
    /\ tf \in Timeframes
    /\ candles \in SeedCandles
    /\ tick_type = "none"
    /\ last_tick = None
    /\ nticks = 0
    /\ InitStrategy
    /\ kind = "Technical"
    /\ min_volume = 0
    /\ InitWs
    /\ InitConn

\* one call of Strategy.parse_trades(price, size, timestamp)
ParseTradesCall(price, size, timestamp) ==
    /\ nticks < MaxTicks
    /\ LET r == ParseTrades(candles, tf_equiv(tf), price, size, timestamp)
       IN  /\ candles' = r.candles
           /\ tick_type' = r.res
    /\ last_tick' = Tick(price, size, timestamp)
    /\ nticks' = nticks + 1
    /\ UNCHANGED << tf, strategyVars, wsVars, connVars >>

NextCandles ==
    \E price \in TickPrices, size \in TickSizes, timestamp \in TickTimes :
        ParseTradesCall(price, size, timestamp)

SpecCandles == InitCandles /\ [][NextCandles]_vars

(***************************************************************************)
(* strategies.py: check_trade, _open_position, _check_order_status         *)
(***************************************************************************)
\* TechnicalStrategy.check_trade: the condition under which the signal is
\* evaluated
TechnicalGate_NoPositionCheck(tt, ongoing) == tt = "new_candle"

TechnicalGate(tt, ongoing) == tt = "new_candle" /\ ~ongoing

\* BreakoutStrategy.check_trade: the condition under which the signal is
\* evaluated (the tick type is not looked at)
BreakoutGate(tt, ongoing) == ~ongoing

\* TechnicalStrategy._check_signal: RSI and MACD over the closes, computed
\* with pandas on floats; any of its three results is possible here.
TechnicalSignals == {-1, 0, 1}

\* BreakoutStrategy._check_signal
BreakoutSignal(cs, mv) ==
    LET c1 == cs[Len(cs)]
        c2 == cs[Len(cs) - 1]
    IN  IF c1.close > c2.high /\ c1.volume > mv THEN 1
        ELSE IF c1.close < c2.low /\ c1.volume > mv THEN -1
        ELSE 0

\* _open_position: order_side and position_side
OrderSide(signal_result) == IF signal_result = 1 THEN "buy" ELSE "sell"
PositionSide_AlwaysLong(signal_result) == "long"
PositionSide(signal_result) == IF signal_result = 1 THEN "long" ELSE "short"

\* Trade as _open_position builds it; time is the logical clock nticks
Trade(time, entry_price, side, quantity, entry_id) ==
    [time |-> time, entry_price |-> entry_price, side |-> side,
     status |-> "open", pnl |-> 0, quantity |-> quantity, entry_id |-> entry_id]

\* the exchange's order states, and what the connector can return
OrderStates == {"new", "partially_filled", "filled", "canceled", "rejected"}
FillPrices == {100, 105}
TradeSizes == {1}
\* get_trade_size: None, or a quantity
TradeSizeReplies == {None} \cup {Some(q) : q \in TradeSizes}
\* place_order / get_order_status: None, or a status and an average price
\* (an order that is not filled carries the average price 0)
StatusReplies ==
    {None}
    \cup {Some([status |-> st, avg_price |-> 0]) : st \in OrderStates \ {"filled"}}
    \cup {Some([status |-> "filled", avg_price |-> p]) : p \in FillPrices}

\* _open_position: `if order_status is not None`
OrderPlaced_Always(order_status) == TRUE

OrderPlaced(order_status) == order_status # None

\* _open_position: the number of Timers it starts for an order, none when the
\* status is 'filled' at placement
StartedTimers_Always(filled) == 1

StartedTimers(filled) == IF filled THEN 0 ELSE 1

\* _open_position(signal_result) with get_trade_size returning trade_size and
\* place_order returning reply; the order id is the index of the call in orders.
\* When the order is not filled at placement the Timer is started here and the
\* Trade is appended by AppendTrade, the thread's next step.
OpenPosition(signal_result, time, trade_size, reply) ==
    IF trade_size = None
    THEN UNCHANGED << ongoing_position, trades, orders, sm_pc, new_trade,
                      timers, tracker_writes >>
    ELSE LET order_id == Len(orders) + 1
             filled == reply # None /\ reply[1].status = "filled"
             avg_fill_price == IF filled THEN Some(reply[1].avg_price) ELSE None
             t == Trade(time, avg_fill_price, PositionSide(signal_result),
                        trade_size[1], order_id)
         IN  /\ orders' = Append(orders,
                    [type |-> "MARKET", side |-> OrderSide(signal_result),
                     signal |-> signal_result, quantity |-> trade_size[1],
                     accepted |-> reply # None,
                     fill_price |-> avg_fill_price])
             /\ tracker_writes' = Append(tracker_writes, << >>)
             /\ IF ~OrderPlaced(reply)
                THEN /\ timers' = Append(timers, 0)
                     /\ UNCHANGED << ongoing_position, trades, sm_pc, new_trade >>
                ELSE /\ ongoing_position' = TRUE
                     /\ timers' = Append(timers, StartedTimers(filled))
                     /\ IF filled
                        THEN /\ trades' = Append(trades, t)
                             /\ UNCHANGED << sm_pc, new_trade >>
                        ELSE /\ new_trade' = Some(t)
                             /\ sm_pc' = "append"
                             /\ UNCHANGED trades

\* check_trade(tick_type) of the strategy's subclass, after parse_trades gave
\* the candle list cs
CheckTrade(tt, cs) ==
    LET gate == IF kind = "Technical"
                THEN TechnicalGate(tt, ongoing_position)
                ELSE BreakoutGate(tt, ongoing_position)
        signals == IF kind = "Technical" THEN TechnicalSignals
                   ELSE {BreakoutSignal(cs, min_volume)}
    IN  IF gate
        THEN /\ signal_calls' = signal_calls + 1
             /\ \E signal_result \in signals :
                   /\ last_signal' = Some(signal_result)
                   /\ IF signal_result \in {-1, 1}
                      THEN \E trade_size \in TradeSizeReplies :
                              IF trade_size = None
                              THEN OpenPosition(signal_result, nticks + 1,
                                                trade_size, None)
                              ELSE \E reply \in StatusReplies :
                                      OpenPosition(signal_result, nticks + 1,
                                                   trade_size, reply)
                      ELSE UNCHANGED << ongoing_position, trades, orders,
                                        sm_pc, new_trade, timers,
                                        tracker_writes >>
        ELSE UNCHANGED << signal_calls, last_signal, ongoing_position, trades,
                          orders, sm_pc, new_trade, timers, tracker_writes >>

\* _on_message for an aggTrade event of the strategy's symbol:
\* res = strat.parse_trades(p, q, T); strat.check_trade(res)
OnAggTrade(price, size, timestamp) ==
    /\ sm_pc = "idle"
    /\ nticks < MaxTicks
    /\ LET r == ParseTrades(candles, tf_equiv(tf), price, size, timestamp)
       IN  /\ candles' = r.candles
           /\ tick_type' = r.res
           /\ CheckTrade(r.res, r.candles)
    /\ last_tick' = Tick(price, size, timestamp)
    /\ nticks' = nticks + 1
    /\ UNCHANGED << tf, kind, min_volume, wsVars, connVars >>

\* _open_position, after Timer.start(): self.trades.append(new_trade)
AppendTrade ==
    /\ sm_pc = "append"
    /\ trades' = Append(trades, new_trade[1])
    /\ new_trade' = None
    /\ sm_pc' = "idle"
    /\ UNCHANGED << candleVars, kind, min_volume, ongoing_position, orders,
                    signal_calls, last_signal, timers, tracker_writes,
                    wsVars, connVars >>

\* _check_order_status: whether the check starts another Timer
Reschedule_Always(reply) == TRUE

Reschedule(reply) == ~(reply # None /\ reply[1].status = "filled")

\* a Timer fires: _check_order_status(order_id) with get_order_status
\* returning reply
CheckOrderStatus(order_id, reply) ==
    /\ timers[order_id] > 0
    /\ timers' = [timers EXCEPT ![order_id] =
                      @ - 1 + (IF Reschedule(reply) THEN 1 ELSE 0)]
    /\ LET matching == {i \in 1..Len(trades) : trades[i].entry_id = order_id}
           first == CHOOSE i \in matching : \A j \in matching : i <= j
       IN  IF reply # None /\ reply[1].status = "filled" /\ matching # {}
           THEN /\ trades' = [trades EXCEPT ![first].entry_price =
                                                Some(reply[1].avg_price)]
                /\ tracker_writes' = [tracker_writes EXCEPT ![order_id] =
                                          Append(@, reply[1].avg_price)]
           ELSE UNCHANGED << trades, tracker_writes >>
    /\ UNCHANGED << candleVars, kind, min_volume, ongoing_position, orders,
                    signal_calls, last_signal, sm_pc, new_trade, wsVars,
                    connVars >>

(***************************************************************************)
(* The strategy specification: a strategy seeded with three historical     *)
(* candles receives ticks in the current, the next or a later interval.    *)
(***************************************************************************)
HistoricalCandles(timeframe) ==
    [i \in 1..3 |->
        Candle(1000 + (i - 1) * tf_equiv(timeframe), 100, 100, 100, 100, 1)]
StrategyPrices == {95, 100, 105}
StrategySizes == {1}
StrategyIntervals == {0, 1, 2}

Init ==
    /\ tf \in Timeframes
    /\ candles = HistoricalCandles(tf)
    /\ tick_type = "none"
    /\ last_tick = None
    /\ nticks = 0
    /\ InitStrategy
    /\ InitWs
    /\ InitConn

Next ==
    \/ \E price \in StrategyPrices, size \in StrategySizes,
          k \in StrategyIntervals :
          OnAggTrade(price, size, Last(candles).timestamp + k * tf_equiv(tf))
    \/ AppendTrade
    \/ \E order_id \in 1..Len(timers), reply \in StatusReplies :
          CheckOrderStatus(order_id, reply)

Spec == Init /\ [][Next]_vars

\* a Timer that runs _check_order_status while the exchange reports the order
\* as filled
FilledCheck ==
    \E order_id \in 1..Len(timers), p \in FillPrices :
        CheckOrderStatus(order_id, Some([status |-> "filled", avg_price |-> p]))

\* The streaming thread finishes _open_position, and a started Timer runs;
\* the exchange comes to report a placed order as filled, so a check that is
\* pending gets that answer sooner or later.
FairSpec == Spec /\ WF_vars(AppendTrade) /\ WF_vars(FilledCheck)

(***************************************************************************)
(* connectors/binanace_future.py: the websocket thread                     *)
(*                                                                         *)
(* __init__ builds threading.Thread(target=self._start_ws) and does not    *)
(* start it (t.start() is commented out), so after construction the stream *)
(* is disconnected; StartWs is a caller running the thread's target.       *)
(* ws_pc: "disconnected" | "connecting" (run_forever called) | "open"      *)
(* (on_open ran) | "closed" (run_forever returned, after the on_error /    *)
(* on_close callbacks, which only log) | "error" (run_forever raised) |    *)
(* "backoff" (the except block logged and slept 2 seconds).                *)
(***************************************************************************)
\* data['params'] of subscribe_channel: symbol@channel for every contract
Params(contracts, channel) == {<< symbol, channel >> : symbol \in contracts}

\* subscribe_channel(contracts, channel): the request gets the id _ws_id,
\* ws.send succeeds or raises (ok), and _ws_id is incremented either way
SubscribeChannel_IdOnSuccess(st, contracts, channel, ok) ==
    [sent |-> Append(st.sent, [id |-> st.id, channel |-> channel,
                               params |-> Params(contracts, channel),
                               ok |-> ok]),
     id |-> IF ok THEN st.id + 1 ELSE st.id]

SubscribeChannel(st, contracts, channel, ok) ==
    [sent |-> Append(st.sent, [id |-> st.id, channel |-> channel,
                               params |-> Params(contracts, channel),
                               ok |-> ok]),
     id |-> st.id + 1]

\* _start_ws up to its first run_forever() call
StartWs ==
    /\ ws_pc = "disconnected"
    /\ ws_pc' = "connecting"
    /\ UNCHANGED << candleVars, strategyVars, connVars, ws_id, ws_sent >>

\* _on_open: subscribe to bookTicker, then to aggTrade
OnOpen(ok1, ok2) ==
    /\ ws_pc = "connecting"
    /\ Len(ws_sent) < 2 * MaxOpens
    /\ LET s0 == [sent |-> ws_sent, id |-> ws_id]
           s1 == SubscribeChannel(s0, Symbols, "bookTicker", ok1)
           s2 == SubscribeChannel(s1, Symbols, "aggTrade", ok2)
       IN  /\ ws_sent' = s2.sent
           /\ ws_id' = s2.id
    /\ ws_pc' = "open"
    /\ UNCHANGED << candleVars, strategyVars, connVars >>

\* run_forever returns: the connection failed or was closed
RunForeverReturns ==
    /\ ws_pc \in {"connecting", "open"}
    /\ ws_pc' = "closed"
    /\ UNCHANGED << candleVars, strategyVars, connVars, ws_id, ws_sent >>

\* run_forever raises
RunForeverRaises ==
    /\ ws_pc \in {"connecting", "open"}
    /\ ws_pc' = "error"
    /\ UNCHANGED << candleVars, strategyVars, connVars, ws_id, ws_sent >>

\* the except block: logger.error(...); time.sleep(2)
Backoff ==
    /\ ws_pc = "error"
    /\ ws_pc' = "backoff"
    /\ UNCHANGED << candleVars, strategyVars, connVars, ws_id, ws_sent >>

\* where the `while True` loop calls run_forever() again from
LoopsFrom == {"closed", "backoff"}

\* the next iteration of `while True`: run_forever() again
Reconnect ==
    /\ ws_pc \in LoopsFrom
    /\ ws_pc' = "connecting"
    /\ UNCHANGED << candleVars, strategyVars, connVars, ws_id, ws_sent >>

\* the steps of the thread once it runs
WsThread ==
    \/ \E ok1 \in BOOLEAN, ok2 \in BOOLEAN : OnOpen(ok1, ok2)
    \/ RunForeverReturns
    \/ RunForeverRaises
    \/ Backoff
    \/ Reconnect

InitStream == Init /\ kind = "Technical"

NextWs == StartWs \/ WsThread

SpecWs == InitStream /\ [][NextWs]_vars

\* a running thread keeps taking steps; nothing in the code starts it
FairSpecWs == SpecWs /\ WF_vars(WsThread)

(***************************************************************************)
(* connectors/binanace_future.py: the REST operations                      *)
(*                                                                         *)
(* A call returns a value or raises: Returned(v) with v None or Some(x),   *)
(* or Raised.  Quantities and prices are integers counted in the smallest  *)
(* decimal the exchange uses (at most 8 decimals), so that the outer       *)
(* round(..., 8) of the code leaves a multiple of the step as it is.       *)
(***************************************************************************)
Returned(v) == [outcome |-> "returned", value |-> v]
Raised == [outcome |-> "raised", value |-> None]

\* what requests.get/post/delete can do: raise (connection refused, timeout),
\* or give a response with a status code and a body; json is the decoded
\* body, None when response.json() cannot decode it
ConnectionError == [error |-> TRUE, status_code |-> 0, json |-> None]
StatusCodes == {200, 400}
Responses(bodies) ==
    {ConnectionError}
    \cup {[error |-> FALSE, status_code |-> st, json |-> j] :
             st \in StatusCodes, j \in {None} \cup {Some(b) : b \in bodies}}

\* the methods _make_request has a branch for
HttpMethods == {"GET", "POST", "DELETE"}

\* _make_request(method, endpoint, data) when the transport does response
MakeRequest(method, response) ==
    IF method \notin HttpMethods THEN Raised
    ELSE IF response.error THEN Returned(None)
    ELSE IF response.status_code = 200
         THEN IF response.json = None THEN Raised
              ELSE Returned(response.json)
         ELSE IF response.json = None THEN Raised
              ELSE Returned(None)

\* Python's round(x) for the rational x = n / d, d > 0: the nearest integer,
\* a tie going to the even one
Round_HalfUp(n, d) == (2 * n + d) \div (2 * d)

Round(n, d) ==
    LET q == n \div d
        r == n % d
    IN  IF 2 * r < d THEN q
        ELSE IF 2 * r > d THEN q + 1
        ELSE IF q % 2 = 0 THEN q
        ELSE q + 1

\* round(round(value / step) * step, 8) for value = n / d
Quantize(n, d, step) == Round(n, d * step) * step

\* Contract: symbol, lot_size, tick_size
Contract(symbol, lot_size, tick_size) ==
    [symbol |-> symbol, lot_size |-> lot_size, tick_size |-> tick_size]
Contracts == {Contract("BTCUSDT", 2, 5), Contract("ETHUSDT", 4, 2)}

\* Balance: the wallet balance and the available balance of one asset
Balance(wallet_balance, available_balance) ==
    [wallet_balance |-> wallet_balance, available_balance |-> available_balance]

\* the 'assets' of an account reply, as asset -> Balance
AccountBodies ==
    {[a \in {"USDT"} |-> Balance(w, v)] : w \in {1000, 1200}, v \in {600, 1000}}
    \cup {[a \in {"BNB"} |-> Balance(3, 3)]}

\* get_balances(): a dict, empty when the request gave None
GetBalances(response) ==
    LET account_data == MakeRequest("GET", response)
    IN  IF account_data.outcome = "raised" THEN Raised
        ELSE IF account_data.value = None THEN Returned(Some(<< >>))
        ELSE Returned(account_data.value)

\* get_trade_size(contract, price, balance_pct)
GetTradeSize(contract, price, balance_pct, response) ==
    LET balances == GetBalances(response)
    IN  IF balances.outcome = "raised" THEN Raised
        ELSE IF "USDT" \notin DOMAIN balances.value[1] THEN Returned(None)
        ELSE LET balance == balances.value[1]["USDT"].wallet_balance
             IN  Returned(Some(Quantize(balance * balance_pct, 100 * price,
                                        contract.lot_size)))

\* place_order: the data it sends
OrderData(contract, order_type, quantity, side, price) ==
    [symbol |-> contract.symbol, side |-> side, type |-> order_type,
     quantity |-> Quantize(quantity, 1, contract.lot_size),
     price |-> IF price = None THEN None
               ELSE Some(Quantize(price[1], 1, contract.tick_size))]

\* place_order(contract, order_type, quantity, side, price)
PlaceOrder(contract, order_type, quantity, side, price, response) ==
    MakeRequest("POST", response)

\* the inputs of the REST specification
RequestMethods == HttpMethods \cup {"PUT"}
OrderBodies == {[status |-> "new", avg_price |-> 0],
                [status |-> "filled", avg_price |-> 100]}
OrderQuantities == 0..10
OrderPrices == {None} \cup {Some(p) : p \in {99, 100, 101, 103}}
OrderTypes == {"MARKET"}
SizingPrices == {5, 8}
BalancePcts == {10, 25}

RestCall(op, method, args, request, response, result) ==
    Some([op |-> op, method |-> method, args |-> args, request |-> request,
          response |-> response, result |-> result])

MakeRequestCall(method, response) ==
    /\ rest_call' = RestCall("_make_request", method, None, None, response,
                             MakeRequest(method, response))
    /\ UNCHANGED << candleVars, strategyVars, wsVars, prices, ui_call, msg_call >>

GetBalancesCall(response) ==
    /\ rest_call' = RestCall("get_balances", "GET", None, None, response,
                             GetBalances(response))
    /\ UNCHANGED << candleVars, strategyVars, wsVars, prices, ui_call, msg_call >>

GetTradeSizeCall(contract, price, balance_pct, response) ==
    /\ rest_call' = RestCall("get_trade_size", "GET",
                             [contract |-> contract, price |-> price,
                              balance_pct |-> balance_pct],
                             None, response,
                             GetTradeSize(contract, price, balance_pct, response))
    /\ UNCHANGED << candleVars, strategyVars, wsVars, prices, ui_call, msg_call >>

PlaceOrderCall(contract, order_type, quantity, side, price, response) ==
    /\ rest_call' = RestCall("place_order", "POST",
                             [contract |-> contract, quantity |-> quantity,
                              price |-> price],
                             Some(OrderData(contract, order_type, quantity,
                                            side, price)),
                             response,
                             PlaceOrder(contract, order_type, quantity, side,
                                        price, response))
    /\ UNCHANGED << candleVars, strategyVars, wsVars, prices, ui_call, msg_call >>

NextRest ==
    \/ \E method \in RequestMethods, response \in Responses(OrderBodies) :
          MakeRequestCall(method, response)
    \/ \E response \in Responses(AccountBodies) : GetBalancesCall(response)
    \/ \E contract \in Contracts, price \in SizingPrices,
          balance_pct \in BalancePcts, response \in Responses(AccountBodies) :
          GetTradeSizeCall(contract, price, balance_pct, response)
    \/ \E contract \in Contracts, order_type \in OrderTypes,
          quantity \in OrderQuantities, side \in {"BUY"},
          price \in OrderPrices, response \in Responses(OrderBodies) :
          PlaceOrderCall(contract, order_type, quantity, side, price, response)

SpecRest == InitStream /\ [][NextRest]_vars

(***************************************************************************)
(* The price cache: get_bid_ask, called by Root._update_ui on the UI       *)
(* thread, and the bookTicker branch of _on_message on the websocket       *)
(* thread.  Nothing locks self.prices, so each read and each write of the  *)
(* cache is a step of its own and the two threads interleave freely.       *)
(* prices[s] is None while s is not a key of the dict, else Some(d) with d *)
(* the inner dict, a function from its keys to their values.               *)
(***************************************************************************)
\* a quote as the exchange gives it: bidPrice / askPrice, or b / a
Quote(bid, ask) == [bid |-> bid, ask |-> ask]
Quotes == {Quote(101, 102), Quote(104, 106)}

\* {'bid': float(...), 'ask': float(...)}
NewEntry_BidOnly(data) == [k \in {"bid"} |-> data[k]]

NewEntry(data) == [k \in {"bid", "ask"} |-> data[k]]

\* d[key] = value on a dict d
SetKey(d, key, value) ==
    [k \in DOMAIN d \cup {key} |-> IF k = key THEN value ELSE d[k]]

\* the symbol of the strategy's contract
StrategySymbol == "BTCUSDT"

Call(symbol, data, pc) == Some([symbol |-> symbol, data |-> data, pc |-> pc])

\* Root._update_ui, watchlist loop: `if symbol not in self.binance.prices`
\* is true and get_bid_ask is called
UpdateUi(symbol) ==
    /\ ui_call = None
    /\ prices[symbol] = None
    /\ ui_call' = Call(symbol, None, "request")
    /\ UNCHANGED << candleVars, strategyVars, wsVars, prices, msg_call, rest_call >>

\* get_bid_ask: the request, and `if contract.symbol not in self.prices`
\* when it gave data; otherwise the call ends (None, or the exception of
\* _make_request)
GetBidAskRequest(response) ==
    /\ ui_call # None /\ ui_call[1].pc = "request"
    /\ LET order_book_data == MakeRequest("GET", response)
           symbol == ui_call[1].symbol
       IN  IF order_book_data.outcome = "raised"
              \/ order_book_data.value = None
           THEN ui_call' = None
           ELSE ui_call' = Call(symbol, order_book_data.value[1],
                                IF prices[symbol] = None THEN "insert"
                                ELSE "bid")
    /\ UNCHANGED << candleVars, strategyVars, wsVars, prices, msg_call, rest_call >>

\* get_bid_ask: self.prices[symbol] = {'bid': ..., 'ask': ...}; return
GetBidAskInsert ==
    /\ ui_call # None /\ ui_call[1].pc = "insert"
    /\ prices' = [prices EXCEPT ![ui_call[1].symbol] =
                      Some(NewEntry(ui_call[1].data))]
    /\ ui_call' = None
    /\ UNCHANGED << candleVars, strategyVars, wsVars, msg_call, rest_call >>

\* get_bid_ask: self.prices[symbol]['bid'] = ...
GetBidAskBid ==
    /\ ui_call # None /\ ui_call[1].pc = "bid"
    /\ prices' = [prices EXCEPT ![ui_call[1].symbol] =
                      Some(SetKey(@[1], "bid", ui_call[1].data.bid))]
    /\ ui_call' = Call(ui_call[1].symbol, ui_call[1].data, "ask")
    /\ UNCHANGED << candleVars, strategyVars, wsVars, msg_call, rest_call >>

\* get_bid_ask: self.prices[symbol]['ask'] = ...; return
GetBidAskAsk ==
    /\ ui_call # None /\ ui_call[1].pc = "ask"
    /\ prices' = [prices EXCEPT ![ui_call[1].symbol] =
                      Some(SetKey(@[1], "ask", ui_call[1].data.ask))]
    /\ ui_call' = None
    /\ UNCHANGED << candleVars, strategyVars, wsVars, msg_call, rest_call >>

\* _on_message, a bookTicker event: `if symbol not in self.prices`
OnBookTicker(symbol, data) ==
    /\ msg_call = None
    /\ msg_call' = Call(symbol, data,
                        IF prices[symbol] = None THEN "insert" ELSE "bid")
    /\ UNCHANGED << candleVars, strategyVars, wsVars, prices, ui_call, rest_call >>

\* _on_message: self.prices[symbol] = {'bid': ..., 'ask': ...}
OnBookTickerInsert ==
    /\ msg_call # None /\ msg_call[1].pc = "insert"
    /\ prices' = [prices EXCEPT ![msg_call[1].symbol] =
                      Some(NewEntry(msg_call[1].data))]
    /\ msg_call' = Call(msg_call[1].symbol, msg_call[1].data, "pnl")
    /\ UNCHANGED << candleVars, strategyVars, wsVars, ui_call, rest_call >>

\* _on_message: self.prices[symbol]['bid'] = ...
OnBookTickerBid ==
    /\ msg_call # None /\ msg_call[1].pc = "bid"
    /\ prices' = [prices EXCEPT ![msg_call[1].symbol] =
                      Some(SetKey(@[1], "bid", msg_call[1].data.bid))]
    /\ msg_call' = Call(msg_call[1].symbol, msg_call[1].data, "ask")
    /\ UNCHANGED << candleVars, strategyVars, wsVars, ui_call, rest_call >>

\* _on_message: self.prices[symbol]['ask'] = ...
OnBookTickerAsk ==
    /\ msg_call # None /\ msg_call[1].pc = "ask"
    /\ prices' = [prices EXCEPT ![msg_call[1].symbol] =
                      Some(SetKey(@[1], "ask", msg_call[1].data.ask))]
    /\ msg_call' = Call(msg_call[1].symbol, msg_call[1].data, "pnl")
    /\ UNCHANGED << candleVars, strategyVars, wsVars, ui_call, rest_call >>

\* _on_message, the pnl loop: for every open trade with an entry price of a
\* strategy on this symbol the local trade_pnl is computed; it is assigned to
\* nothing, so no Trade changes
OnBookTickerPnl ==
    /\ msg_call # None /\ msg_call[1].pc = "pnl"
    /\ msg_call' = None
    /\ UNCHANGED << candleVars, strategyVars, wsVars, prices, ui_call, rest_call >>

\* The strategy when the quotes arrive: as constructed, or after its first
\* tick (price 105 in the next interval) gave a signal and the order was
\* placed: filled at 100 at once, or not filled and appended without price.
QuotedPositions ==
    {None}
    \cup {Some([signal |-> sg, fill |-> Some(100)]) : sg \in {1, -1}}
    \cup {Some([signal |-> 1, fill |-> None])}

InitQuotes ==
    /\ tf \in Timeframes
    /\ kind = "Technical"
    /\ min_volume = 0
    /\ sm_pc = "idle"
    /\ new_trade = None
    /\ InitWs
    /\ InitConn
    /\ \E pos \in QuotedPositions :
          IF pos = None
          THEN /\ candles = HistoricalCandles(tf)
               /\ tick_type = "none" /\ last_tick = None /\ nticks = 0
               /\ ongoing_position = FALSE /\ trades = << >> /\ orders = << >>
               /\ signal_calls = 0 /\ last_signal = None
               /\ timers = << >> /\ tracker_writes = << >>
          ELSE LET hist == HistoricalCandles(tf)
                   ts == Last(hist).timestamp + tf_equiv(tf)
                   sg == pos[1].signal
               IN  /\ candles = ParseTrades(hist, tf_equiv(tf), 105, 1, ts).candles
                   /\ tick_type = "new_candle"
                   /\ last_tick = Tick(105, 1, ts)
                   /\ nticks = 1
                   /\ ongoing_position = TRUE
                   /\ trades = << Trade(1, pos[1].fill, PositionSide(sg), 1, 1) >>
                   /\ orders = << [type |-> "MARKET", side |-> OrderSide(sg),
                                   signal |-> sg, quantity |-> 1,
                                   accepted |-> TRUE,
                                   fill_price |-> pos[1].fill] >>
                   /\ signal_calls = 1
                   /\ last_signal = Some(sg)
                   /\ timers = << IF pos[1].fill = None THEN 1 ELSE 0 >>
                   /\ tracker_writes = << << >> >>

UiThread ==
    \/ \E symbol \in Symbols : UpdateUi(symbol)
    \/ \E response \in Responses(Quotes) : GetBidAskRequest(response)
    \/ GetBidAskInsert
    \/ GetBidAskBid
    \/ GetBidAskAsk

MessageThread ==
    \/ \E symbol \in Symbols, data \in Quotes : OnBookTicker(symbol, data)
    \/ OnBookTickerInsert
    \/ OnBookTickerBid
    \/ OnBookTickerAsk
    \/ OnBookTickerPnl

NextQuotes == UiThread \/ MessageThread

SpecQuotes == InitQuotes /\ [][NextQuotes]_vars

(***************************************************************************)
(* Claims about parse_trades, checked under SpecCandles.                   *)
(***************************************************************************)
\* the step is one parse_trades call; its tick is last_tick'
IsTickStep == nticks' = nticks + 1
Dur == tf_equiv(tf)
T0 == Last(candles).timestamp

\* C3: after any sequence of parse_trades calls on a strictly increasing seed,
\* the candle list is strictly increasing in timestamp, with no duplicate
\* timestamp, whatever the tick timestamps were.
C3_StrictlyIncreasing ==
    /\ \A i \in 1..(Len(candles) - 1) :
           candles[i].timestamp < candles[i + 1].timestamp
    /\ \A i, j \in 1..Len(candles) :
           i # j => candles[i].timestamp # candles[j].timestamp

\* a tick older than the last candle arrived after a gap of many intervals
\* had been filled
C3_Witness ==
    /\ nticks >= 2
    /\ Len(candles) >= 5
    /\ last_tick.timestamp < Last(candles).timestamp

\* C4: a tick with timestamp < t0 + D appends nothing, sets close to price,
\* high to max(high, price), low to min(low, price), adds size to volume,
\* leaves open and timestamp alone, and returns the same-candle tick type.
C4_SameInterval ==
    [][(IsTickStep /\ last_tick'.timestamp < T0 + Dur) =>
          /\ Len(candles') = Len(candles)
          /\ \A i \in 1..(Len(candles) - 1) : candles'[i] = candles[i]
          /\ Last(candles').close = last_tick'.price
          /\ Last(candles').high = Max(Last(candles).high, last_tick'.price)
          /\ Last(candles').low = Min(Last(candles).low, last_tick'.price)
          /\ Last(candles').volume = Last(candles).volume + last_tick'.size
          /\ Last(candles').open = Last(candles).open
          /\ Last(candles').timestamp = Last(candles).timestamp
          /\ tick_type' = "some_candle"]_vars

\* a same-candle tick set a new low on a candle that parse_trades had opened
\* and whose high an earlier tick had raised
C4_Witness ==
    /\ tick_type = "some_candle"
    /\ Len(candles) >= 2
    /\ Last(candles).low = last_tick.price
    /\ Last(candles).low < Last(candles).open
    /\ Last(candles).high > Last(candles).open

\* C5: a tick with t0 + D <= timestamp < t0 + 2D appends exactly one candle
\* with open = high = low = close = price, volume = size, timestamp t0 + D,
\* leaves the existing candles alone and returns the new-candle tick type.
C5_NextInterval ==
    [][(IsTickStep /\ T0 + Dur <= last_tick'.timestamp
                   /\ last_tick'.timestamp < T0 + 2 * Dur) =>
          /\ candles' = Append(candles,
                 Candle(T0 + Dur, last_tick'.price, last_tick'.price,
                        last_tick'.price, last_tick'.price, last_tick'.size))
          /\ tick_type' = "new_candle"]_vars

\* the first tick fell in the interval after the seed candle's
C5_Witness ==
    /\ nticks = 1
    /\ tick_type = "new_candle"
    /\ Len(candles) = 2
    /\ Last(candles).volume = 2

\* C6: a tick with timestamp >= t0 + 2D appends missing = floor((ts - t0)/D) - 1
\* flat candles (previous close, volume 0) at t0 + D, t0 + 2D, ... and then
\* one candle with open = high = low = close = price and volume = size; it
\* returns the new-candle tick type.
C6_GapTick ==
    [][(IsTickStep /\ last_tick'.timestamp >= T0 + 2 * Dur) =>
          LET missing == ((last_tick'.timestamp - T0) \div Dur) - 1
              prev == Last(candles).close
              synthetic == [i \in 1..missing |->
                               Candle(T0 + i * Dur, prev, prev, prev, prev, 0)]
              real == Candle(T0 + (missing + 1) * Dur, last_tick'.price,
                             last_tick'.price, last_tick'.price,
                             last_tick'.price, last_tick'.size)
          IN  /\ candles' = candles \o synthetic \o << real >>
              /\ tick_type' = "new_candle"]_vars

\* C7: the reference trace on the "1m" timeframe from the seed candle
\* {t=1000, O=H=L=C=100, V=0}: tick (105, 1, 1000) updates it to
\* {O=100, H=105, L=100, C=105, V=1}; tick (103, 2, 65000) appends
\* {O=H=L=C=103, V=2, t=61000}; tick (110, 1, 250000) appends three flat
\* candles of 103 at 121000, 181000, 241000 and a candle of 110, V=1 at 301000.
C7_ReferenceTrace ==
    [][(IsTickStep /\ tf = "1m") =>
          LET c1 == Candle(1000, 100, 105, 100, 105, 1)
              c2 == Candle(61000, 103, 103, 103, 103, 2)
          IN  /\ (candles = << Candle(1000, 100, 100, 100, 100, 0) >>
                  /\ last_tick' = Tick(105, 1, 1000))
                 => (candles' = << c1 >> /\ tick_type' = "some_candle")
              /\ (candles = << c1 >> /\ last_tick' = Tick(103, 2, 65000))
                 => (candles' = << c1, c2 >> /\ tick_type' = "new_candle")
              /\ (candles = << c1, c2 >> /\ last_tick' = Tick(110, 1, 250000))
                 => (candles' = << c1, c2,
                                   Candle(121000, 103, 103, 103, 103, 0),
                                   Candle(181000, 103, 103, 103, 103, 0),
                                   Candle(241000, 103, 103, 103, 103, 0),
                                   Candle(301000, 110, 110, 110, 110, 1) >>
                     /\ tick_type' = "new_candle")]_vars

(***************************************************************************)
(* Claims about check_trade and the order lifecycle, checked under Spec.   *)
(***************************************************************************)
\* C1: while ongoing_position is true no order is submitted: a check_trade
\* call with the new-candle tick type (or any other) leaves the list of
\* place_order calls as it was, whatever the signal would be.
C1_NoOrderWhileOngoing ==
    [][ongoing_position => orders' = orders]_vars

\* a Breakout strategy with an open position got a new-candle tick on which
\* its signal is non-zero
C1_Witness ==
    /\ kind = "Breakout"
    /\ ongoing_position
    /\ sm_pc = "idle"
    /\ Len(trades) = 1
    /\ trades[1].time < nticks
    /\ tick_type = "new_candle"
    /\ BreakoutSignal(candles, min_volume) # 0

C8_SameCandleNeverEvaluates ==
    [][IsTickStep =>
          /\ tick_type' = "some_candle" =>
                /\ signal_calls' = signal_calls
                /\ orders' = orders
                /\ trades' = trades
                /\ ongoing_position' = ongoing_position
          /\ signal_calls' # signal_calls =>
                (tick_type' = "new_candle" /\ ~ongoing_position)]_vars

(***************************************************************************)
(* Claims about the websocket thread, checked under SpecWs / FairSpecWs.   *)
(***************************************************************************)
\* C9: from construction the stream thread reaches Connecting, and from
\* every state in which run_forever has returned or raised it reaches
\* Connecting again.
C9_ReconnectsForever ==
    /\ <>(ws_pc = "connecting")
    /\ [](ws_pc \in {"closed", "error"} => <>(ws_pc = "connecting"))

\* C10: run_forever is called again after a close or an error only after
\* the backoff wait.
C10_BackoffBeforeReconnect ==
    [][(ws_pc \in {"closed", "error", "backoff"} /\ ws_pc' = "connecting")
          => ws_pc = "backoff"]_vars

\* C21: the candle list is append-only and only its last element is ever
\* changed: a parse_trades call never shortens the list and leaves every
\* candle but the one that was last before the call as it was; when the tick
\* falls in the next interval or after a gap the candle that was last is
\* left as it was too.
C21_AppendOnly ==
    [][IsTickStep =>
          /\ Len(candles') >= Len(candles)
          /\ \A i \in 1..(Len(candles) - 1) : candles'[i] = candles[i]
          /\ last_tick'.timestamp >= T0 + Dur
             => /\ candles'[Len(candles)] = candles[Len(candles)]
                /\ Len(candles') > Len(candles)]_vars

\* a gap was filled behind a candle that carried volume and had a candle
\* before it
C21_Witness ==
    /\ tick_type = "new_candle"
    /\ nticks >= 2
    /\ Len(candles) >= 4
    /\ candles[2].volume > 0
    /\ candles[3].volume = 0 /\ candles[4].volume = 0
    /\ candles[3].timestamp + tf_equiv(tf) <= last_tick.timestamp

\* C22: after a parse_trades call whose tick is not older than the last
\* candle (timestamp >= t0), the last candle of the list has an
\* open-timestamp L with L <= timestamp < L + D; and each candle the call
\* appended is exactly D after the candle before it.
C22_TickInLastInterval ==
    [][(IsTickStep /\ last_tick'.timestamp >= T0) =>
          /\ Last(candles').timestamp <= last_tick'.timestamp
          /\ last_tick'.timestamp < Last(candles').timestamp + Dur
          /\ \A i \in (Len(candles) + 1)..Len(candles') :
                candles'[i].timestamp = candles'[i - 1].timestamp + Dur]_vars

\* the tick fell strictly inside the fourth interval after the last candle:
\* three flat candles and the final one were appended
C22_Witness ==
    /\ nticks = 1
    /\ tick_type = "new_candle"
    /\ Len(candles) >= 5
    /\ Last(candles).timestamp < last_tick.timestamp
    /\ last_tick.timestamp < Last(candles).timestamp + tf_equiv(tf)

(***************************************************************************)
(* Claims about the REST operations, checked under SpecRest.               *)
(***************************************************************************)
\* C11: every connector request turns a transport-level failure (connection
\* refused, timeout, non-success status, a body that cannot be decoded on a
\* success or a non-success status) into an error value; no call raises.
C11_NoExceptionPropagates ==
    rest_call # None /\ rest_call[1].method \in HttpMethods
        => rest_call[1].result.outcome = "returned"

Abs(x) == IF x >= 0 THEN x ELSE -x

\* res is the multiple of step nearest to the rational n / d, and the even
\* multiple when n / d is half way between two multiples
NearestMultiple(res, n, d, step) ==
    /\ res % step = 0
    /\ LET k == res \div step
           dist(j) == Abs(j * step * d - n)
       IN  \A j \in 0..((n \div (d * step)) + 1) :
              /\ dist(k) <= dist(j)
              /\ (j # k /\ dist(j) = dist(k)) => k % 2 = 0

\* C14: the quantity place_order transmits is the multiple of the lot size
\* nearest to the requested quantity, the price (when given) the multiple of
\* the tick size nearest to the requested price, ties going to the even
\* multiple as round(value / step) * step does; the quantity get_trade_size
\* returns is such a multiple of the lot size for the size it computed.
C14_Quantized ==
    /\ (rest_call # None /\ rest_call[1].op = "place_order")
       => LET a == rest_call[1].args
              data == rest_call[1].request[1]
          IN  /\ NearestMultiple(data.quantity, a.quantity, 1,
                                 a.contract.lot_size)
              /\ (a.price = None) = (data.price = None)
              /\ a.price # None
                 => NearestMultiple(data.price[1], a.price[1], 1,
                                    a.contract.tick_size)
    /\ (rest_call # None /\ rest_call[1].op = "get_trade_size"
        /\ rest_call[1].result.value # None)
       => LET a == rest_call[1].args
              usdt == rest_call[1].response.json[1]["USDT"]
          IN  NearestMultiple(rest_call[1].result.value[1],
                              usdt.wallet_balance * a.balance_pct,
                              100 * a.price, a.contract.lot_size)

\* a place_order call whose quantity and price are both half way between two
\* multiples: 6 / 4 = 1.5 goes up to 2 lots, 101 / 2 = 50.5 down to 50 ticks
C14_Witness ==
    /\ rest_call # None /\ rest_call[1].op = "place_order"
    /\ rest_call[1].args.contract = Contract("ETHUSDT", 4, 2)
    /\ rest_call[1].args.quantity = 6
    /\ rest_call[1].args.price = Some(101)
    /\ rest_call[1].request[1].quantity = 8
    /\ rest_call[1].request[1].price = Some(100)

\* C15: get_trade_size returns the lot-size multiple nearest to
\* (available USDT balance * balance_pct / 100) / price, computed from the
\* available balance and not from the wallet balance, and returns None
\* whenever the USDT balance cannot be determined, a failed balance request
\* included.
C15_AvailableBalance ==
    (rest_call # None /\ rest_call[1].op = "get_trade_size")
    => LET a == rest_call[1].args
           response == rest_call[1].response
           result == rest_call[1].result
           determined == /\ ~response.error
                         /\ response.status_code = 200
                         /\ response.json # None
                         /\ "USDT" \in DOMAIN response.json[1]
       IN  /\ result.outcome = "returned"
           /\ IF determined
              THEN /\ result.value # None
                   /\ NearestMultiple(
                          result.value[1],
                          response.json[1]["USDT"].available_balance
                              * a.balance_pct,
                          100 * a.price, a.contract.lot_size)
              ELSE result.value = None

(***************************************************************************)
(* Claims about the price cache, checked under SpecQuotes.                 *)
(***************************************************************************)
\* C12: in every reachable state, whatever the interleaving of the quote
\* handling of _on_message and of get_bid_ask, every symbol that is in the
\* price cache has both a bid and an ask.
C12_BothSides ==
    \A s \in Symbols :
        prices[s] # None => DOMAIN prices[s][1] = {"bid", "ask"}

\* both threads are between their two writes to the entry of one symbol
C12_Witness ==
    \E s \in Symbols :
        /\ prices[s] # None
        /\ ui_call # None /\ ui_call[1].symbol = s /\ ui_call[1].pc = "ask"
        /\ msg_call # None /\ msg_call[1].symbol = s /\ msg_call[1].pc = "ask"
        /\ ui_call[1].data # msg_call[1].data

\* C13: when a quote update for symbol S has been handled, every open Trade
\* with an entry price of a strategy on S has the stored PnL
\* (bid - entry) * quantity if long, (entry - ask) * quantity if short.
C13_PnlStored ==
    [][(msg_call # None /\ msg_call' = None
        /\ msg_call[1].symbol = StrategySymbol)
       => \A i \in 1..Len(trades') :
             LET t == trades'[i]
                 quote == prices'[StrategySymbol][1]
             IN  (t.status = "open" /\ t.entry_price # None)
                 => t.pnl = IF t.side = "long"
                            THEN (quote["bid"] - t.entry_price[1]) * t.quantity
                            ELSE (t.entry_price[1] - quote["ask"]) * t.quantity]_vars

\* C20: only the websocket thread writes the price cache, no step of the UI
\* thread does; so whenever no call is in progress, the bid and the ask of
\* every cached quote come from one and the same update.
C20_SoleWriter ==
    /\ [][prices' # prices => ui_call' = ui_call]_vars
    /\ [](ui_call = None /\ msg_call = None
           => \A s \in Symbols :
                 prices[s] # None
                 => \E data \in Quotes : prices[s][1] = NewEntry(data))

(***************************************************************************)
(* Claims about the strategy, checked under Spec and FairSpec.             *)
(***************************************************************************)
\* C16: the signal BreakoutStrategy evaluates on a new-candle tick is +1
\* exactly when the close of the last completed candle is above the high of
\* the candle before it and its volume is above min_volume, -1 symmetrically
\* on the low, and 0 otherwise; the still-open candle the tick has just
\* appended is not the one compared.
C16_CompletedCandle ==
    [][(IsTickStep /\ kind = "Breakout" /\ tick_type' = "new_candle"
        /\ signal_calls' = signal_calls + 1)
       => LET completed == candles'[Len(candles') - 1]
              before == candles'[Len(candles') - 2]
          IN  last_signal' =
                  Some(IF /\ completed.close > before.high
                          /\ completed.volume > min_volume
                       THEN 1
                       ELSE IF /\ completed.close < before.low
                               /\ completed.volume > min_volume
                            THEN -1
                            ELSE 0)]_vars

\* C17: a status check that does not see 'filled' starts exactly one further
\* check and one that sees 'filled' starts none, so an order never has more
\* than one check pending and no step adds one to an order that has none;
\* and when the checks run and the exchange comes to report 'filled', every
\* accepted order gets a Trade with an entry price and its polling stops.
C17_PollingProtocol ==
    /\ [][\A id \in 1..Len(timers) :
             /\ timers[id] <= 1
             /\ timers'[id] <= timers[id]]_vars
    /\ \A id \in 1..MaxTicks :
          [](id <= Len(orders) /\ orders[id].accepted
             => <>(/\ id <= Len(timers) /\ timers[id] = 0
                   /\ \E i \in 1..Len(trades) :
                         /\ trades[i].entry_id = id
                         /\ trades[i].entry_price # None))

\* C18: when a +1 or -1 signal is acted on and the order submission succeeds,
\* exactly one MARKET order has been submitted, on the side of the signal
\* (buy for +1, sell for -1); exactly one Trade is appended for it, with
\* status 'open', side long for +1 and short for -1, entry_id the order's id
\* and entry price the average fill price if the order was filled at
\* placement and null otherwise; and ongoing_position is true.
C18_OpenPositionEffect ==
    /\ [][orders' # orders
          => /\ Len(orders') = Len(orders) + 1
             /\ SubSeq(orders', 1, Len(orders)) = orders
             /\ last_signal' = Some(Last(orders').signal)
             /\ Last(orders').accepted => ongoing_position']_vars
    /\ [](\A id \in 1..Len(orders) :
            LET o == orders[id]
                appended == {i \in 1..Len(trades) : trades[i].entry_id = id}
                local == new_trade # None /\ new_trade[1].entry_id = id
            IN  /\ o.type = "MARKET"
                /\ o.signal \in {1, -1}
                /\ o.side = IF o.signal = 1 THEN "buy" ELSE "sell"
                /\ ~o.accepted => appended = {} /\ ~local
                /\ o.accepted
                   => /\ ongoing_position
                      /\ IF sm_pc = "idle"
                         THEN Cardinality(appended) = 1 /\ ~local
                         ELSE appended = {} /\ local
                      /\ \A i \in appended :
                            /\ trades[i].status = "open"
                            /\ trades[i].side =
                                  IF o.signal = 1 THEN "long" ELSE "short"
                            /\ o.fill_price # None
                               => trades[i].entry_price = o.fill_price
                            /\ (o.fill_price = None /\ tracker_writes[id] = << >>)
                               => trades[i].entry_price = None)

\* a sell order that was accepted and not filled at placement: its Trade is
\* appended, short, without entry price, after an earlier submission failed
C18_Witness ==
    /\ Len(orders) = 2 /\ ~orders[1].accepted
    /\ orders[2].accepted /\ orders[2].signal = -1
    /\ orders[2].fill_price = None
    /\ sm_pc = "idle" /\ ongoing_position
    /\ Len(trades) = 1 /\ trades[1].entry_id = 2
    /\ trades[1].side = "short" /\ trades[1].entry_price = None

\* C23: whatever the interleaving of _open_position with the status check
\* it starts, a check that sees 'filled' for an order finds a Trade with
\* that entry_id in the trade list, and there is no state in which the
\* polling of an accepted order has stopped while its Trade has no entry
\* price.
C23_FillNeverDropped ==
    /\ [][\A id \in 1..Len(timers) :
             timers'[id] < timers[id]
             => \E i \in 1..Len(trades) : trades[i].entry_id = id]_vars
    /\ [](\A id \in 1..Len(orders) :
            (orders[id].accepted /\ timers[id] = 0)
            => /\ \A i \in 1..Len(trades) :
                     trades[i].entry_id = id => trades[i].entry_price # None
               /\ (new_trade # None /\ new_trade[1].entry_id = id)
                  => new_trade[1].entry_price # None)

\* the step is an attempt to open a position that failed: a signal of +1 or
\* -1 was evaluated and get_trade_size gave nothing (no order was sent) or
\* place_order gave nothing
IsFailedOpen ==
    /\ signal_calls' = signal_calls + 1
    /\ last_signal' \in {Some(1), Some(-1)}
    /\ \/ orders' = orders
       \/ Len(orders') = Len(orders) + 1 /\ ~Last(orders').accepted

\* C24: a failed attempt to open a position (get_trade_size gives nothing,
\* or place_order gives nothing) leaves the trade list and ongoing_position
\* as they were and starts no status check, so the strategy is still without
\* a position and the next signal can be acted on.
C24_FailedOpenLeavesState ==
    [][IsFailedOpen
       => /\ trades' = trades
          /\ new_trade' = new_trade /\ sm_pc' = sm_pc
          /\ ongoing_position' = ongoing_position
          /\ ~ongoing_position'
          /\ \A id \in 1..Len(timers) : timers'[id] = timers[id]
          /\ \A id \in (Len(timers) + 1)..Len(timers') : timers'[id] = 0]_vars

\* after an attempt without trade size and one whose place_order failed, the
\* third signal was acted on and its order accepted
C24_Witness ==
    /\ signal_calls = 3 /\ nticks = 3
    /\ Len(orders) = 2
    /\ ~orders[1].accepted
    /\ orders[2].accepted /\ orders[2].fill_price # None
    /\ ongoing_position
    /\ Len(trades) = 1 /\ trades[1].entry_id = 2 /\ trades[1].time = 3

\* C25: in every reachable state an order has at most one status check
\* pending, and none if it was reported filled at placement; no check that
\* runs raises the number of pending checks of any order.
C25_OnePendingCheck ==
    /\ [](\A id \in 1..Len(timers) :
            /\ timers[id] \in {0, 1}
            /\ orders[id].fill_price # None => timers[id] = 0
            /\ ~orders[id].accepted => timers[id] = 0)
    /\ [][\A id \in 1..Len(timers) : timers'[id] <= timers[id]]_vars

\* a Breakout strategy's order was not filled at placement; one check has
\* run, written the entry price and started no further check
C25_Witness ==
    /\ kind = "Breakout"
    /\ Len(orders) = 1 /\ orders[1].accepted /\ orders[1].fill_price = None
    /\ timers = << 0 >>
    /\ Len(tracker_writes[1]) = 1
    /\ Len(trades) = 1 /\ trades[1].entry_price = Some(tracker_writes[1][1])

(***************************************************************************)
(* Claims about the subscriptions, checked under SpecWs.                   *)
(***************************************************************************)
\* C19: on every transition into Open the client issues two subscription
\* requests, for bookTicker and then for aggTrade, each covering every known
\* contract; over the whole run, failed sends included, the id of each
\* request is greater than the id of every earlier one; a failed send of the
\* first request does not prevent the second.
C19_Subscriptions ==
    [][(ws_pc' = "open" /\ ws_pc # "open")
       => /\ Len(ws_sent') = Len(ws_sent) + 2
          /\ SubSeq(ws_sent', 1, Len(ws_sent)) = ws_sent
          /\ LET first == ws_sent'[Len(ws_sent) + 1]
                 second == ws_sent'[Len(ws_sent) + 2]
             IN  /\ first.channel = "bookTicker"
                 /\ first.params = {<< s, "bookTicker" >> : s \in Symbols}
                 /\ second.channel = "aggTrade"
                 /\ second.params = {<< s, "aggTrade" >> : s \in Symbols}
          /\ \A i, j \in 1..Len(ws_sent') :
                i < j => ws_sent'[i].id < ws_sent'[j].id]_vars

\* the stream is open for the second time; both times the bookTicker send
\* failed and the aggTrade request was issued after it
C19_Witness ==
    /\ ws_pc = "open"
    /\ Len(ws_sent) = 4
    /\ ~ws_sent[1].ok /\ ws_sent[2].ok
    /\ ~ws_sent[3].ok /\ ws_sent[4].ok
    /\ ws_sent[4].id = 4

=============================================================================
